---- MODULE Spec2Model ----
(***************************************************************************)
(* negroni-logrus: the request-logging middleware (middleware.go) and the  *)
(* request-scoped logger / writer context slots (context.go).              *)
(*                                                                         *)
(* A context is modelled by its two private slots, a logrus entry by its   *)
(* backend and its field map, a response writer by its kind and (for the   *)
(* status-capturing writer of a request) the status it has captured.       *)
(***************************************************************************)
EXTENDS Integers, Sequences, FiniteSets, TLC

VARIABLES
    m,            \* the shared *Middleware: its fields
    now,          \* the reading of the injected clock
    pc,           \* per request goroutine: position in ServeHTTP
    req,          \* per goroutine: rw and r as received by ServeHTTP
    local,        \* per goroutine: ServeHTTP's local variables
    handler,      \* per goroutine: what the next handler received and did
    wstatus,      \* per goroutine: status captured by the request's negroni.ResponseWriter
    events,       \* per goroutine: calls and records of this request, in order
    log,          \* per goroutine: records handed to the backend, in order
    afterArgs,    \* per goroutine: arguments of each After call
    fieldWrites,  \* per goroutine: Middleware fields written by its ServeHTTP
    excludeResult, \* the last ExcludeURL call: its argument and what it returned
    cx            \* a context under derivation, and the results of reading it

vars == <<m, now, pc, req, local, handler, wstatus, events, log, afterArgs,
          fieldWrites, excludeResult, cx>>

(***************************************************************************)
(* Bounds                                                                  *)
(***************************************************************************)
MaxClock == 2
MaxExcluded == 2
MaxDepth == 2

Procs == {"p1", "p2"}

(***************************************************************************)
(* logrus entries: backend + fields                                        *)
(***************************************************************************)
EmptyFields == <<>>

\* logrus.Fields merge of Entry.WithFields: existing data, then the new fields (last write wins)
MergeFields(data, fields) ==
    [k \in (DOMAIN data) \cup (DOMAIN fields) |->
        IF k \in DOMAIN fields THEN fields[k] ELSE data[k]]

\* logrus.NewEntry(logger)
NewEntry(logger) == [logger |-> logger, data |-> EmptyFields]

\* entry.WithFields(fields): a new entry on the same backend
WithFields(e, fields) == [logger |-> e.logger, data |-> MergeFields(e.data, fields)]

\* entry.WithField(k, v)
WithField(e, k, v) == WithFields(e, [x \in {k} |-> v])

\* the package's discard backend
nullLogger == "nullLogger"

\* the backend a Middleware is constructed with
AppLogger == "Logger"

(***************************************************************************)
(* context.go: the logger slot and the writer slot of a context            *)
(***************************************************************************)
\* what ctx.Value(ctxLoggerKey) can hold: nothing, a (*ctxLogger)(nil), a
\* value of another type, or a *ctxLogger
EmptyCarrier == [logger |-> NewEntry(nullLogger), fields |-> EmptyFields]
NoLoggerValue == [kind |-> "absent", l |-> EmptyCarrier]
NilLoggerValue == [kind |-> "nil", l |-> EmptyCarrier]
OtherLoggerValue == [kind |-> "other", l |-> EmptyCarrier]

\* writers of a request: its status-capturing negroni.ResponseWriter, an opaque
\* wrapper around it (forwards writes, hides Status), or the nil interface
NoWriter == "nil"
Writers == {"negroni", "opaque"}

\* rw.(negroni.ResponseWriter)
IsStatusCapturing(w) == w = "negroni"

Background == [logger |-> NoLoggerValue, writer |-> NoWriter, other |-> "v0"]

ToContext(ctx, e) ==
    [ctx EXCEPT !.logger = [kind |-> "carrier",
                            l |-> [logger |-> e, fields |-> EmptyFields]]]

\* mutant: the carrier is used without the nil check, and a nil one faults
ExtractNoNilCheck(ctx) ==
    IF ctx.logger.kind \in {"absent", "other"}
    THEN NewEntry(nullLogger)
    ELSE IF ctx.logger.kind = "nil"
    THEN [logger |-> "panic: nil pointer dereference", data |-> EmptyFields]
    ELSE WithFields(ctx.logger.l.logger,
                    MergeFields(EmptyFields, ctx.logger.l.fields))

\* mutant: the entry is rebuilt from the carrier's backend and the carrier's own
\* fields, without the fields of the stored entry
ExtractCarrierFieldsOnly(ctx) ==
    IF ctx.logger.kind # "carrier"
    THEN NewEntry(nullLogger)
    ELSE WithFields(NewEntry(ctx.logger.l.logger.logger),
                    MergeFields(EmptyFields, ctx.logger.l.fields))

Extract(ctx) ==
    IF ctx.logger.kind # "carrier"
    THEN NewEntry(nullLogger)
    ELSE WithFields(ctx.logger.l.logger,
                    MergeFields(EmptyFields, ctx.logger.l.fields))

\* mutant: the assertion to http.ResponseWriter is made without the comma-ok form
ExtractWriterMust(ctx) ==
    IF ctx.writer = NoWriter THEN "panic: interface conversion" ELSE ctx.writer

\* rw, _ := ctx.Value(ctxWriterKey{}).(http.ResponseWriter); return rw
ExtractWriter(ctx) == ctx.writer

\* mutant: with nothing to add, Extract hands out the entry the carrier holds
ExtractSharesStored(ctx) ==
    ctx.logger.kind = "carrier" /\ ctx.logger.l.fields = EmptyFields

\* whether the entry Extract returns is the object the carrier holds:
\* l.logger.WithFields(fields) and logrus.NewEntry allocate a new Entry with a
\* new Data map on every call
ExtractShares(ctx) == FALSE

\* mutant: the writer is stored under the key of the logger slot
AddWriterSameKey(ctx, w) == [ctx EXCEPT !.logger = OtherLoggerValue, !.writer = w]

\* context.WithValue(ctx, ctxWriterKey{}, rw)
AddWriterToContext(ctx, w) == [ctx EXCEPT !.writer = w]

(***************************************************************************)
(* middleware.go: hooks                                                    *)
(***************************************************************************)
Hooks == {"nil", "default", "custom"}

Method == "GET"
RemoteAddr == "192.0.2.1:1234"

StatusCodes == {200, 404}

\* http.StatusText
StatusText(code) ==
    CASE code = 200 -> "OK"
      [] code = 404 -> "Not Found"
      [] OTHER -> ""

Names == {"web", "svc"}

\* fmt.Sprintf("measure#%s.latency", name)
MeasureKey(name) ==
    CASE name = "web" -> "measure#web.latency"
      [] name = "svc" -> "measure#svc.latency"
      [] OTHER -> "measure#.latency"

DefaultBefore(e, r, remoteAddr) ==
    WithFields(e, [request |-> r.uri, method |-> Method, remote |-> remoteAddr])

\* res.Status(): res is the negroni.ResponseWriter as the hook sees it
Status(res) == res.status

\* mutant: text_status is taken from a fixed code
DefaultAfterTextOK(e, res, latency, name) ==
    WithFields(e,
        [k \in {"status", "text_status", "took", MeasureKey(name)} |->
            CASE k = "status" -> Status(res)
              [] k = "text_status" -> StatusText(200)
              [] OTHER -> latency])

DefaultAfter(e, res, latency, name) ==
    WithFields(e,
        [k \in {"status", "text_status", "took", MeasureKey(name)} |->
            CASE k = "status" -> Status(res)
              [] k = "text_status" -> StatusText(Status(res))
              [] OTHER -> latency])

\* hooks supplied by the application: they tag the entry
CustomBefore(e, r, remoteAddr) == WithField(e, "before_hook", "custom")

CustomAfter(e, res, latency, name) == WithField(e, "after_hook", "custom")

\* calling a hook field that holds nil panics
HookFault(hook) == hook = "nil"

\* m.Before(entry, r, remoteAddr), m.Before being set
CallBefore(hook, e, r, remoteAddr) ==
    IF hook = "custom" THEN CustomBefore(e, r, remoteAddr)
    ELSE DefaultBefore(e, r, remoteAddr)

\* m.After(log, res, latency, m.Name), m.After being set
CallAfter(hook, e, res, latency, name) ==
    IF hook = "custom" THEN CustomAfter(e, res, latency, name)
    ELSE DefaultAfter(e, res, latency, name)

(***************************************************************************)
(* middleware.go: configuration                                            *)
(***************************************************************************)
URLInputs == {"/healthz", "/metrics", "%zz"}

\* url.Parse(u) succeeds
ValidURL(u) == u # "%zz"

\* mutant: only the first entry of the list is compared
IsExcludedFirstOnly(path, urls) == Len(urls) > 0 /\ urls[1] = path

\* for _, u := range m.excludeURLs { if r.URL.Path == u ... }
IsExcluded(path, urls) == \E i \in 1..Len(urls) : urls[i] = path

Quiescent == \A p \in Procs : pc[p] = "idle"

\* no ExcludeURL call is the last thing that happened
NoCall == [err |-> "none", u |-> ""]

NewMiddleware(name) ==
    [Logger |-> AppLogger, Name |-> name, Before |-> "default", After |-> "default",
     logStarting |-> TRUE, excludeURLs |-> <<>>]

NoRequest == [path |-> "", uri |-> "", reqID |-> "", realIP |-> "",
              ctx |-> Background, rw |-> NoWriter]

NoLocal == [skipped |-> FALSE, start |-> 0, remoteAddr |-> "",
            entry |-> NewEntry(nullLogger), newCtx |-> Background,
            latency |-> 0, res |-> NoWriter, ok |-> FALSE]

\* rw and ctx0 are what next was called with, ctx the context of the request as
\* the chain has re-derived it since, code the status the chain wrote
NoHandler == [calls |-> 0, rw |-> NoWriter, ctx0 |-> Background, ctx |-> Background,
              written |-> FALSE, code |-> 0, enriched |-> FALSE, deposited |-> FALSE,
              entry |-> NewEntry(nullLogger)]

NoCx == [ctx |-> Background, parent |-> Background, op |-> "none", last |-> "none",
         touched |-> FALSE, depth |-> 0,
         arg |-> NewEntry(nullLogger), argw |-> NoWriter,
         entry |-> NewEntry(nullLogger), writer |-> NoWriter,
         held |-> NewEntry(nullLogger), holds |-> FALSE, shared |-> FALSE,
         tagged |-> FALSE]

InitRest ==
    /\ now = 0
    /\ pc = [p \in Procs |-> "idle"]
    /\ req = [p \in Procs |-> NoRequest]
    /\ local = [p \in Procs |-> NoLocal]
    /\ handler = [p \in Procs |-> NoHandler]
    /\ wstatus = [p \in Procs |-> 0]
    /\ events = [p \in Procs |-> <<>>]
    /\ log = [p \in Procs |-> <<>>]
    /\ afterArgs = [p \in Procs |-> <<>>]
    /\ fieldWrites = [p \in Procs |-> {}]
    /\ excludeResult = NoCall
    /\ cx = NoCx

\* NewMiddleware()
Init ==
    /\ m = NewMiddleware("web")
    /\ InitRest

perRequest == <<pc, req, local, handler, wstatus, events, log, afterArgs, fieldWrites>>

SetLogStarting(v) ==
    /\ Quiescent
    /\ m' = [m EXCEPT !.logStarting = v]
    /\ excludeResult' = NoCall
    /\ UNCHANGED <<now, perRequest, cx>>

\* mutant: the string is registered without being parsed
ExcludeURLUnparsed(u) ==
    /\ Quiescent
    /\ Len(m.excludeURLs) < MaxExcluded
    /\ m' = [m EXCEPT !.excludeURLs = Append(@, u)]
    /\ excludeResult' = [err |-> "nil", u |-> u]
    /\ UNCHANGED <<now, perRequest, cx>>

\* if _, err := url.Parse(u); err != nil { return err }; append; return nil
ExcludeURL(u) ==
    /\ Quiescent
    /\ ValidURL(u) => Len(m.excludeURLs) < MaxExcluded
    /\ IF ~ValidURL(u)
       THEN /\ excludeResult' = [err |-> "error", u |-> u]
            /\ m' = m
       ELSE /\ m' = [m EXCEPT !.excludeURLs = Append(@, u)]
            /\ excludeResult' = [err |-> "nil", u |-> u]
    /\ UNCHANGED <<now, perRequest, cx>>

\* ExcludedURLs()
ExcludedURLs == m.excludeURLs

\* m.Before = f, the field being exported (f may be nil)
SetBefore(h) ==
    /\ Quiescent
    /\ m' = [m EXCEPT !.Before = h]
    /\ excludeResult' = NoCall
    /\ UNCHANGED <<now, perRequest, cx>>

\* m.After = f
SetAfter(h) ==
    /\ Quiescent
    /\ m' = [m EXCEPT !.After = h]
    /\ excludeResult' = NoCall
    /\ UNCHANGED <<now, perRequest, cx>>

\* m.clock.Now()
Now == now

\* mutant: the elapsed time is taken from the clock's origin
SinceEpoch(t) == now

\* m.clock.Since(t)
Since(t) == now - t

\* the clock advances
Tick ==
    /\ now < MaxClock
    /\ now' = now + 1
    /\ UNCHANGED <<m, perRequest, excludeResult, cx>>

(***************************************************************************)
(* middleware.go: ServeHTTP, one goroutine per request                     *)
(***************************************************************************)
Paths == {"/healthz", "/api"}
RequestIDs == {"", "abc123"}
RealIPs == {"", "10.0.0.1"}

\* the requests a server hands to ServeHTTP
Requests ==
    [path : Paths, uri : Paths, reqID : RequestIDs, realIP : RealIPs,
     ctx : {AddWriterToContext(Background, w) : w \in Writers \cup {NoWriter}},
     rw : Writers]

StartedMsg == "started handling request"
CompletedMsg == "completed handling request"

Record(msg, e) == [msg |-> msg, logger |-> e.logger, data |-> e.data]

\* mutant: the start record is never emitted
StartLogNever(logStarting, e) == <<>>

\* mutant: the start record is emitted whatever m.logStarting is
StartLogAlways(logStarting, e) == <<Record(StartedMsg, e)>>

\* if m.logStarting { entry.Info("started handling request") }
StartLog(logStarting, e) ==
    IF logStarting THEN <<Record(StartedMsg, e)>> ELSE <<>>

\* mutant: no fallback to the writer in the request's context
RecoverWriterDirect(rw, ctx) ==
    [res |-> rw, ok |-> IsStatusCapturing(rw), fault |-> FALSE]

\* mutant: the writer taken from the context is not asserted again
RecoverWriterNoReassert(rw, ctx) ==
    LET rw2 == IF IsStatusCapturing(rw) THEN rw ELSE ExtractWriter(ctx)
    IN  [res |-> rw2, ok |-> IsStatusCapturing(rw), fault |-> FALSE]

\* mutant: the assertions are made without the comma-ok form
RecoverWriterMust(rw, ctx) ==
    LET rw2 == IF IsStatusCapturing(rw) THEN rw ELSE ExtractWriter(ctx)
    IN  [res |-> rw2, ok |-> IsStatusCapturing(rw2), fault |-> ~IsStatusCapturing(rw2)]

\* res, ok := rw.(negroni.ResponseWriter); if !ok, the same on ExtractWriter(r.Context()).
\* The comma-ok assertions cannot fault.
RecoverWriter(rw, ctx) ==
    LET rw2 == IF IsStatusCapturing(rw) THEN rw ELSE ExtractWriter(ctx)
    IN  [res |-> rw2, ok |-> IsStatusCapturing(rw2), fault |-> FALSE]

\* ServeHTTP(rw, r, next) is entered
ServeBegin(p, r) ==
    /\ pc[p] = "idle"
    /\ r.uri = r.path
    /\ pc' = [pc EXCEPT ![p] = "hooks"]
    /\ req' = [req EXCEPT ![p] = r]
    /\ excludeResult' = NoCall
    /\ UNCHANGED <<m, now, local, handler, wstatus, events, log, afterArgs, fieldWrites, cx>>

\* mutant: the hooks are used as they are found
ResolveHooksNever(p) ==
    /\ pc[p] = "hooks"
    /\ pc' = [pc EXCEPT ![p] = "excluded?"]
    /\ UNCHANGED <<m, now, req, local, handler, wstatus, events, log, afterArgs,
                   fieldWrites, excludeResult, cx>>

\* mutant: the hooks are reset to the defaults at every dispatch
ResolveHooksAlways(p) ==
    /\ pc[p] = "hooks"
    /\ m' = [m EXCEPT !.Before = "default", !.After = "default"]
    /\ fieldWrites' = [fieldWrites EXCEPT ![p] =
            {[field |-> f, concurrent |-> \E q \in Procs \ {p} : pc[q] # "idle"] :
                f \in {"Before", "After"}}]
    /\ pc' = [pc EXCEPT ![p] = "excluded?"]
    /\ UNCHANGED <<now, req, local, handler, wstatus, events, log, afterArgs, excludeResult, cx>>

\* if m.Before == nil { m.Before = DefaultBefore }; the same for m.After
ResolveHooks(p) ==
    /\ pc[p] = "hooks"
    /\ m' = [m EXCEPT !.Before = IF @ = "nil" THEN "default" ELSE @,
                      !.After = IF @ = "nil" THEN "default" ELSE @]
    /\ LET concurrent == \E q \in Procs \ {p} : pc[q] # "idle"
       IN  fieldWrites' = [fieldWrites EXCEPT ![p] =
             @ \cup (IF m.Before = "nil"
                     THEN {[field |-> "Before", concurrent |-> concurrent]} ELSE {})
               \cup (IF m.After = "nil"
                     THEN {[field |-> "After", concurrent |-> concurrent]} ELSE {})]
    /\ pc' = [pc EXCEPT ![p] = "excluded?"]
    /\ UNCHANGED <<now, req, local, handler, wstatus, events, log, afterArgs, excludeResult, cx>>

\* mutant: on a match next(rw, r) is called but ServeHTTP does not return
ExcludedCheckNoReturn(p) ==
    /\ pc[p] = "excluded?"
    /\ IF IsExcluded(req[p].path, m.excludeURLs)
       THEN /\ handler' = [handler EXCEPT ![p].calls = @ + 1,
                                          ![p].rw = req[p].rw,
                                          ![p].ctx0 = req[p].ctx,
                                          ![p].ctx = req[p].ctx]
            /\ events' = [events EXCEPT ![p] = @ \o <<"next", "return">>]
       ELSE UNCHANGED <<handler, events>>
    /\ pc' = [pc EXCEPT ![p] = "proceed"]
    /\ UNCHANGED <<m, now, req, local, wstatus, log, afterArgs, fieldWrites, excludeResult, cx>>

\* the loop over m.excludeURLs: on a match, next(rw, r) and return
ExcludedCheck(p) ==
    /\ pc[p] = "excluded?"
    /\ IF IsExcluded(req[p].path, m.excludeURLs)
       THEN /\ local' = [local EXCEPT ![p].skipped = TRUE]
            /\ handler' = [handler EXCEPT ![p].calls = @ + 1,
                                          ![p].rw = req[p].rw,
                                          ![p].ctx0 = req[p].ctx,
                                          ![p].ctx = req[p].ctx]
            /\ events' = [events EXCEPT ![p] = Append(@, "next")]
            /\ pc' = [pc EXCEPT ![p] = "next"]
       ELSE /\ pc' = [pc EXCEPT ![p] = "proceed"]
            /\ UNCHANGED <<local, handler, events>>
    /\ UNCHANGED <<m, now, req, wstatus, log, afterArgs, fieldWrites, excludeResult, cx>>

\* mutant: the header's value is attached even when it is empty
WithRequestIDAlways(e, reqID) == WithField(e, "request_id", reqID)

\* if reqID := r.Header.Get("X-Request-Id"); reqID != "" { entry = entry.WithField("request_id", reqID) }
WithRequestID(e, reqID) ==
    IF reqID # "" THEN WithField(e, "request_id", reqID) ELSE e

\* start, remoteAddr, entry, request_id, entry = m.Before(entry, r, remoteAddr)
Proceed(p) ==
    /\ pc[p] = "proceed"
    /\ LET remoteAddr == IF req[p].realIP # "" THEN req[p].realIP ELSE RemoteAddr
           e0 == NewEntry(m.Logger)
           e1 == WithRequestID(e0, req[p].reqID)
       IN  /\ local' = [local EXCEPT ![p].start = Now,
                                     ![p].remoteAddr = remoteAddr,
                                     ![p].entry = IF HookFault(m.Before) THEN e1
                                                  ELSE CallBefore(m.Before, e1, req[p], remoteAddr)]
           /\ events' = [events EXCEPT ![p] = @ \o <<"Now", "Before">>]
    /\ pc' = [pc EXCEPT ![p] = IF HookFault(m.Before) THEN "panicked" ELSE "dispatch"]
    /\ UNCHANGED <<m, now, req, handler, wstatus, log, afterArgs, fieldWrites, excludeResult, cx>>

\* mutant: the handle is put into the context before the start record is emitted
DispatchInstallFirst(p) ==
    /\ pc[p] = "dispatch"
    /\ LET newCtx == ToContext(req[p].ctx, local[p].entry)
       IN  /\ local' = [local EXCEPT ![p].newCtx = newCtx]
           /\ handler' = [handler EXCEPT ![p].calls = @ + 1,
                                         ![p].rw = req[p].rw,
                                         ![p].ctx0 = newCtx,
                                         ![p].ctx = newCtx]
    /\ log' = [log EXCEPT ![p] = @ \o StartLog(m.logStarting, local[p].entry)]
    /\ events' = [events EXCEPT ![p] =
            @ \o <<"ToContext">>
              \o [i \in 1..Len(StartLog(m.logStarting, local[p].entry)) |-> "started"]
              \o <<"next">>]
    /\ pc' = [pc EXCEPT ![p] = "next"]
    /\ UNCHANGED <<m, now, req, wstatus, afterArgs, fieldWrites, excludeResult, cx>>

\* the start record if m.logStarting, newCtx, next(rw, r.WithContext(newCtx))
Dispatch(p) ==
    /\ pc[p] = "dispatch"
    /\ LET newCtx == ToContext(req[p].ctx, local[p].entry)
       IN  /\ local' = [local EXCEPT ![p].newCtx = newCtx]
           /\ handler' = [handler EXCEPT ![p].calls = @ + 1,
                                         ![p].rw = req[p].rw,
                                         ![p].ctx0 = newCtx,
                                         ![p].ctx = newCtx]
    /\ log' = [log EXCEPT ![p] = @ \o StartLog(m.logStarting, local[p].entry)]
    /\ events' = [events EXCEPT ![p] =
            @ \o [i \in 1..Len(StartLog(m.logStarting, local[p].entry)) |-> "started"]
              \o <<"ToContext", "next">>]
    /\ pc' = [pc EXCEPT ![p] = "next"]
    /\ UNCHANGED <<m, now, req, wstatus, afterArgs, fieldWrites, excludeResult, cx>>

(***************************************************************************)
(* the next handler: what a handler chain can do with (rw, r)              *)
(***************************************************************************)
\* rw.WriteHeader(code): every writer of the request forwards to its
\* status-capturing writer
HandlerWriteHeader(p, code) ==
    /\ pc[p] = "next"
    /\ ~handler[p].written
    /\ wstatus' = [wstatus EXCEPT ![p] = code]
    /\ handler' = [handler EXCEPT ![p].written = TRUE, ![p].code = code]
    /\ UNCHANGED <<m, now, pc, req, local, events, log, afterArgs, fieldWrites, excludeResult, cx>>

\* e := Extract(r.Context()).WithField("user", ...); r = r.WithContext(ToContext(r.Context(), e))
HandlerEnrich(p) ==
    /\ pc[p] = "next"
    /\ ~handler[p].enriched
    /\ LET e == WithField(Extract(handler[p].ctx), "user", "u1")
       IN  handler' = [handler EXCEPT ![p].enriched = TRUE,
                                      ![p].entry = e,
                                      ![p].ctx = ToContext(@, e)]
    /\ UNCHANGED <<m, now, pc, req, local, wstatus, events, log, afterArgs, fieldWrites, excludeResult, cx>>

\* r = r.WithContext(AddWriterToContext(r.Context(), <the negroni writer>))
HandlerAddWriter(p) ==
    /\ pc[p] = "next"
    /\ ~handler[p].deposited
    /\ handler' = [handler EXCEPT ![p].deposited = TRUE,
                                  ![p].ctx = AddWriterToContext(@, "negroni")]
    /\ UNCHANGED <<m, now, pc, req, local, wstatus, events, log, afterArgs, fieldWrites, excludeResult, cx>>

\* next returns to the excluded-path branch, which returns
SkipReturn(p) ==
    /\ pc[p] = "next"
    /\ local[p].skipped
    /\ events' = [events EXCEPT ![p] = Append(@, "return")]
    /\ pc' = [pc EXCEPT ![p] = "done"]
    /\ UNCHANGED <<m, now, req, local, handler, wstatus, log, afterArgs, fieldWrites, excludeResult, cx>>

\* next returns: latency, the writer's recovery, After and the completion record
Complete(p) ==
    /\ pc[p] = "next"
    /\ ~local[p].skipped
    /\ LET latency == Since(local[p].start)
           direct == IsStatusCapturing(req[p].rw)
           rec == RecoverWriter(req[p].rw, req[p].ctx)
           ok == rec.ok /\ ~rec.fault
           res == [w |-> rec.res, status |-> wstatus[p]]
           lg == Extract(local[p].newCtx)
           out == CallAfter(m.After, lg, res, latency, m.Name)
           afterFault == ok /\ HookFault(m.After)
       IN  /\ local' = [local EXCEPT ![p].latency = latency,
                                     ![p].res = rec.res,
                                     ![p].ok = rec.ok]
           /\ afterArgs' = [afterArgs EXCEPT ![p] =
                  IF ok THEN Append(@, [entry |-> lg, res |-> res,
                                        latency |-> latency, name |-> m.Name])
                  ELSE @]
           /\ log' = [log EXCEPT ![p] =
                  IF ok /\ ~afterFault THEN Append(@, Record(CompletedMsg, out)) ELSE @]
           /\ events' = [events EXCEPT ![p] =
                  @ \o <<"return", "Since">>
                    \o (IF direct THEN <<>> ELSE <<"ExtractWriter">>)
                    \o (IF ~ok THEN <<>>
                        ELSE IF afterFault THEN <<"Extract", "After">>
                        ELSE <<"Extract", "After", "completed">>)]
           /\ pc' = [pc EXCEPT ![p] = IF rec.fault \/ afterFault THEN "panicked" ELSE "done"]
    /\ UNCHANGED <<m, now, req, handler, wstatus, fieldWrites, excludeResult, cx>>

\* ServeHTTP has returned, or next has panicked and ServeHTTP is unwound without
\* another step; the goroutine takes the next request
Finish(p) ==
    /\ pc[p] \in {"done", "next", "panicked"}
    /\ pc' = [pc EXCEPT ![p] = "idle"]
    /\ req' = [req EXCEPT ![p] = NoRequest]
    /\ local' = [local EXCEPT ![p] = NoLocal]
    /\ handler' = [handler EXCEPT ![p] = NoHandler]
    /\ wstatus' = [wstatus EXCEPT ![p] = 0]
    /\ events' = [events EXCEPT ![p] = <<>>]
    /\ log' = [log EXCEPT ![p] = <<>>]
    /\ afterArgs' = [afterArgs EXCEPT ![p] = <<>>]
    /\ fieldWrites' = [fieldWrites EXCEPT ![p] = {}]
    /\ UNCHANGED <<m, now, excludeResult, cx>>

\* the steps of goroutine p
Serve(p) ==
    \/ \E r \in Requests : ServeBegin(p, r)
    \/ ResolveHooks(p)
    \/ ExcludedCheck(p)
    \/ Proceed(p)
    \/ Dispatch(p)
    \/ \E code \in StatusCodes : HandlerWriteHeader(p, code)
    \/ HandlerEnrich(p)
    \/ HandlerAddWriter(p)
    \/ SkipReturn(p)
    \/ Complete(p)
    \/ Finish(p)

Configure ==
    \/ \E v \in BOOLEAN : SetLogStarting(v)
    \/ \E u \in URLInputs : ExcludeURL(u)
    \/ \E h \in Hooks : SetBefore(h)
    \/ \E h \in Hooks : SetAfter(h)

\* a server that handles one request at a time
Next ==
    \/ Configure
    \/ Serve("p1")

Spec == Init /\ [][Next]_vars

\* a server that handles one request at a time, under a running clock
InitClock ==
    /\ m \in {[NewMiddleware(n) EXCEPT !.excludeURLs = <<"/healthz">>] : n \in Names}
    /\ InitRest

NextClock ==
    \/ Tick
    \/ Serve("p1")

SpecClock == InitClock /\ [][NextClock]_vars

(***************************************************************************)
(* concurrent requests on one Middleware                                   *)
(***************************************************************************)
ConcRequests ==
    {r \in Requests : /\ r.reqID = "abc123" /\ r.realIP = ""
                      /\ r.ctx.writer = NoWriter /\ r.rw = "negroni"}

ServeConc(p) ==
    \/ \E r \in ConcRequests : ServeBegin(p, r)
    \/ ResolveHooks(p)
    \/ ExcludedCheck(p)
    \/ Proceed(p)
    \/ Dispatch(p)
    \/ \E code \in StatusCodes : HandlerWriteHeader(p, code)
    \/ SkipReturn(p)
    \/ Complete(p)
    \/ Finish(p)

NextConc ==
    \/ Configure
    \/ \E p \in Procs : ServeConc(p)

SpecConc == Init /\ [][NextConc]_vars

(***************************************************************************)
(* context.go on its own: contexts derived step by step and read back      *)
(***************************************************************************)
HandleData == {EmptyFields, [user |-> "u1"], [request_id |-> "abc123", user |-> "u2"]}
Handles == {[logger |-> l, data |-> d] : l \in {AppLogger, nullLogger}, d \in HandleData}

\* contexts no ToContext and no AddWriterToContext has touched
UntouchedContexts ==
    {[Background EXCEPT !.logger = v] :
        v \in {NoLoggerValue, NilLoggerValue, OtherLoggerValue}}

\* the context under test is chosen
CtxStart(c) ==
    /\ cx.op = "none"
    /\ cx' = [cx EXCEPT !.ctx = c, !.parent = c, !.op = "start"]
    /\ UNCHANGED <<m, now, perRequest, excludeResult>>

CtxToContext(h) ==
    /\ cx.op # "none"
    /\ cx.depth < MaxDepth
    /\ cx' = [cx EXCEPT !.ctx = ToContext(cx.ctx, h), !.parent = cx.ctx,
                        !.op = "ToContext", !.last = "ToContext", !.touched = TRUE,
                        !.arg = h, !.depth = @ + 1,
                        !.held = NoCx.held, !.holds = FALSE, !.shared = FALSE,
                        !.tagged = FALSE]
    /\ UNCHANGED <<m, now, perRequest, excludeResult>>

CtxAddWriter(w) ==
    /\ cx.op # "none"
    /\ cx.depth < MaxDepth
    /\ cx' = [cx EXCEPT !.ctx = AddWriterToContext(cx.ctx, w), !.parent = cx.ctx,
                        !.op = "AddWriterToContext", !.last = "AddWriterToContext",
                        !.argw = w, !.depth = @ + 1,
                        !.held = NoCx.held, !.holds = FALSE, !.shared = FALSE,
                        !.tagged = FALSE]
    /\ UNCHANGED <<m, now, perRequest, excludeResult>>

\* context.WithValue(ctx, k, v) by an unrelated user of the context
CtxWithValue(v) ==
    /\ cx.op # "none"
    /\ cx.depth < MaxDepth
    /\ cx' = [cx EXCEPT !.ctx = [cx.ctx EXCEPT !.other = v], !.parent = cx.ctx,
                        !.op = "WithValue", !.last = "WithValue", !.depth = @ + 1,
                        !.held = NoCx.held, !.holds = FALSE, !.shared = FALSE,
                        !.tagged = FALSE]
    /\ UNCHANGED <<m, now, perRequest, excludeResult>>

\* e := Extract(ctx): the caller now holds e
CtxExtract ==
    /\ cx.op # "none"
    /\ cx' = [cx EXCEPT !.entry = Extract(cx.ctx), !.op = "Extract",
                        !.held = Extract(cx.ctx), !.holds = TRUE,
                        !.shared = ExtractShares(cx.ctx)]
    /\ UNCHANGED <<m, now, perRequest, excludeResult>>

\* the caller attaches a field to the handle it holds: e = e.WithField("tag", "t1"),
\* which gives it another new entry, or e.Data["tag"] = "t1", which writes the
\* map of the entry it holds and of whatever shares that entry
CtxAttach(inPlace) ==
    /\ cx.holds
    /\ "tag" \notin DOMAIN cx.held.data
    /\ cx' = [cx EXCEPT
            !.held = WithField(@, "tag", "t1"),
            !.shared = IF inPlace THEN @ ELSE FALSE,
            !.tagged = TRUE,
            !.op = "Attach",
            !.ctx = IF inPlace /\ cx.shared /\ cx.ctx.logger.kind = "carrier"
                    THEN [@ EXCEPT !.logger.l.logger = WithField(@, "tag", "t1")]
                    ELSE @]
    /\ UNCHANGED <<m, now, perRequest, excludeResult>>

CtxExtractWriter ==
    /\ cx.op # "none"
    /\ cx' = [cx EXCEPT !.writer = ExtractWriter(cx.ctx), !.op = "ExtractWriter"]
    /\ UNCHANGED <<m, now, perRequest, excludeResult>>

NextCtx ==
    \/ \E c \in UntouchedContexts : CtxStart(c)
    \/ \E h \in Handles : CtxToContext(h)
    \/ \E w \in Writers : CtxAddWriter(w)
    \/ \E v \in {"v1"} : CtxWithValue(v)
    \/ CtxExtract
    \/ \E inPlace \in BOOLEAN : CtxAttach(inPlace)
    \/ CtxExtractWriter

SpecCtx == Init /\ [][NextCtx]_vars

(***************************************************************************)
(* Properties                                                              *)
(***************************************************************************)
\* the request of p has a path equal to an entry of the excluded-path list
PathExcluded(p) == \E i \in DOMAIN m.excludeURLs : m.excludeURLs[i] = req[p].path

\* next has been called for the request of p
Dispatched(p) == pc[p] \in {"next", "done"}

RecordsOf(p, msg) == {i \in DOMAIN log[p] : log[p][i].msg = msg}

Occurs(p, ev) == \E i \in DOMAIN events[p] : events[p][i] = ev

\* C1: a request whose path equals an excluded entry is handed to next with the
\* same writer and the same request (no Carrier in its context), no record is
\* emitted and neither hook is called, whatever the hooks and the log-starting
\* setting are.
C1_ExcludedPassThrough ==
    \A p \in Procs :
        (Dispatched(p) /\ PathExcluded(p)) =>
            /\ handler[p].calls = 1
            /\ handler[p].rw = req[p].rw
            /\ handler[p].ctx0 = req[p].ctx
            /\ handler[p].ctx0.logger.kind # "carrier"
            /\ log[p] = <<>>
            /\ afterArgs[p] = <<>>
            /\ ~Occurs(p, "Before")
            /\ ~Occurs(p, "After")

\* an excluded request matched by the second entry of the list has returned,
\* with the start log enabled and an application Before hook installed
C1_Witness ==
    \E p \in Procs :
        /\ pc[p] = "done"
        /\ Len(m.excludeURLs) = 2
        /\ m.excludeURLs[1] # req[p].path
        /\ m.excludeURLs[2] = req[p].path
        /\ m.logStarting
        /\ m.Before = "custom"
        /\ IsStatusCapturing(req[p].rw)

\* C2: a request that is not excluded gets exactly one "started handling request"
\* record if log-starting is enabled and none if it is disabled, at most one
\* "completed handling request" record, and no other record.
C2_RecordCounts ==
    \A p \in Procs :
        (Dispatched(p) /\ ~PathExcluded(p)) =>
            /\ Cardinality(RecordsOf(p, StartedMsg)) = (IF m.logStarting THEN 1 ELSE 0)
            /\ Cardinality(RecordsOf(p, CompletedMsg)) <= 1
            /\ pc[p] = "next" => RecordsOf(p, CompletedMsg) = {}
            /\ Len(log[p]) <= 2
            /\ DOMAIN log[p] = RecordsOf(p, StartedMsg) \cup RecordsOf(p, CompletedMsg)

\* a request that is not excluded has returned with both records emitted
C2_Witness ==
    \E p \in Procs :
        /\ pc[p] = "done"
        /\ ~PathExcluded(p)
        /\ Len(log[p]) = 2
        /\ log[p][1].msg = StartedMsg
        /\ log[p][2].msg = CompletedMsg

\* the completion record of p's request (there is at most one)
Completed(p) == log[p][CHOOSE i \in RecordsOf(p, CompletedMsg) : TRUE]

HasField(data, k, v) == k \in DOMAIN data /\ data[k] = v

\* C3: fields that a downstream handler adds to the handle it got from Extract
\* reach the After hook and the "completed handling request" record.
C3_EnrichmentsReachAfter ==
    \A p \in Procs :
        (pc[p] = "done" /\ ~PathExcluded(p) /\ handler[p].enriched /\ afterArgs[p] # <<>>) =>
            /\ HasField(afterArgs[p][1].entry.data, "user", "u1")
            /\ HasField(Completed(p).data, "user", "u1")

\* C4 as claimed: with a writer that is not status-capturing, a status-capturing
\* writer deposited by a handler of the chain is recovered after the chain
\* returns and the completion record is emitted with it.
C4_DownstreamDepositRecovered ==
    \A p \in Procs :
        (pc[p] = "done" /\ ~PathExcluded(p) /\ ~IsStatusCapturing(req[p].rw)
            /\ handler[p].deposited) =>
            /\ IsStatusCapturing(local[p].res)
            /\ RecordsOf(p, CompletedMsg) # {}

\* C4 (amended): with a writer that is not status-capturing, the writer the
\* middleware falls back to after the chain returned is the one in the context
\* of the request as ServeHTTP received it: the completion record is emitted
\* exactly if that writer is status-capturing, whether or not a handler of the
\* chain deposited a writer in a context derived downstream.
C4_InboundWriterRecovered ==
    \A p \in Procs :
        (pc[p] = "done" /\ ~PathExcluded(p) /\ ~IsStatusCapturing(req[p].rw)) =>
            /\ local[p].res = req[p].ctx.writer
            /\ Occurs(p, "ExtractWriter")
            /\ (RecordsOf(p, CompletedMsg) # {}) = (req[p].ctx.writer = "negroni")
            /\ (afterArgs[p] # <<>>) = (req[p].ctx.writer = "negroni")
            /\ afterArgs[p] # <<>> => afterArgs[p][1].res.w = req[p].ctx.writer

\* the writer was opaque, the inbound context carried the negroni writer, a
\* handler of the chain deposited one too, and the completion record is there
C4_Witness ==
    \E p \in Procs :
        /\ pc[p] = "done"
        /\ ~PathExcluded(p)
        /\ req[p].rw = "opaque"
        /\ req[p].ctx.writer = "negroni"
        /\ handler[p].deposited
        /\ handler[p].ctx.writer = "negroni"
        /\ RecordsOf(p, CompletedMsg) # {}

\* C5: with the default After hook, the completion record's status is the code
\* the innermost handler wrote (what the recovered writer reports after the chain
\* returned; 0 when nothing was written), and text_status is that code's text.
C5_StatusOfCompletion ==
    \A p \in Procs :
        (pc[p] = "done" /\ ~PathExcluded(p) /\ m.After = "default"
            /\ RecordsOf(p, CompletedMsg) # {}) =>
            LET d == Completed(p).data
            IN  /\ "status" \in DOMAIN d
                /\ "text_status" \in DOMAIN d
                /\ d["status"] = handler[p].code
                /\ d["status"] = afterArgs[p][1].res.status
                /\ handler[p].written => d["status"] \in StatusCodes
                /\ d["status"] = 200 => d["text_status"] = "OK"
                /\ d["status"] = 404 => d["text_status"] = "Not Found"
                /\ d["status"] = 0 => d["text_status"] = ""

\* the handler wrote 404 through an opaque writer and the completion record,
\* made by the default After hook, is there
C5_Witness ==
    \E p \in Procs :
        /\ pc[p] = "done"
        /\ ~PathExcluded(p)
        /\ m.After = "default"
        /\ req[p].rw = "opaque"
        /\ handler[p].code = 404
        /\ RecordsOf(p, CompletedMsg) # {}

\* C6 as claimed: every request that is not excluded causes at least one record.
C6_NonExcludedAlwaysLogs ==
    \A p \in Procs :
        (pc[p] = "done" /\ ~PathExcluded(p)) => Len(log[p]) >= 1

\* C6 (amended): a request that is not excluded and whose next handler has
\* returned has at least one record exactly if log-starting is enabled or a
\* status-capturing writer is at hand (the writer itself, or the one in the
\* inbound context); otherwise it passes without any record.
C6_LogsUnlessNothingToLog ==
    \A p \in Procs :
        (pc[p] = "done" /\ ~PathExcluded(p)) =>
            (Len(log[p]) >= 1) =
                (\/ m.logStarting
                 \/ req[p].rw = "negroni"
                 \/ req[p].ctx.writer = "negroni")

\* a request that is not excluded has returned without any record
C6_Witness ==
    \E p \in Procs :
        /\ pc[p] = "done"
        /\ ~PathExcluded(p)
        /\ handler[p].calls = 1
        /\ log[p] = <<>>

\* C8: when neither the writer nor the one recovered through ExtractWriter is
\* status-capturing (or none was attached), After is not called, there is no
\* completion record, nothing faults and ServeHTTP returns once next has.
C8_NoWriterNoCompletion ==
    \A p \in Procs :
        /\ pc[p] # "panicked"
        /\ (Dispatched(p) /\ ~PathExcluded(p) /\ ~IsStatusCapturing(req[p].rw)
                /\ ~IsStatusCapturing(req[p].ctx.writer)) =>
            /\ afterArgs[p] = <<>>
            /\ ~Occurs(p, "After")
            /\ RecordsOf(p, CompletedMsg) = {}
            /\ handler[p].calls = 1
            /\ pc[p] = "next" => ENABLED Complete(p)
            /\ pc[p] = "done" => (~local[p].ok /\ Occurs(p, "return"))

\* ServeHTTP has returned for an opaque writer, a context with no writer
\* attached and a handler that wrote a status
C8_Witness ==
    \E p \in Procs :
        /\ pc[p] = "done"
        /\ ~PathExcluded(p)
        /\ req[p].rw = "opaque"
        /\ req[p].ctx.writer = NoWriter
        /\ local[p].res = NoWriter
        /\ handler[p].written

\* C7: no ServeHTTP writes a field of the Middleware while another request is
\* in flight on it: during request processing the fields are only read.
C7_NoConcurrentFieldWrite ==
    \A p \in Procs : \A w \in fieldWrites[p] : ~w.concurrent

\* What ServeHTTP does write: a step taken while a request is in flight never
\* changes Logger, Name, logStarting or excludeURLs, and changes Before (After)
\* only from nil to the default hook; a hook that is set is never written.
OnlyUnsetHooksWritten ==
    [][(~Quiescent \/ ~Quiescent') =>
        /\ m'.Logger = m.Logger
        /\ m'.Name = m.Name
        /\ m'.logStarting = m.logStarting
        /\ m'.excludeURLs = m.excludeURLs
        /\ (m'.Before # m.Before) => (m.Before = "nil" /\ m'.Before = "default")
        /\ (m'.After # m.After) => (m.After = "nil" /\ m'.After = "default")
        /\ \A p \in Procs : \A w \in fieldWrites'[p] : w.field \in {"Before", "After"}]_vars

\* a request has stored the default Before hook while another request was in
\* flight, and both are still in flight
ConcurrentHookWrite ==
    \E p \in Procs : \E q \in Procs \ {p} :
        /\ pc[p] # "idle"
        /\ pc[q] # "idle"
        /\ [field |-> "Before", concurrent |-> TRUE] \in fieldWrites[p]
        /\ m.Before = "default"

\* C9: Extract on a context ToContext never touched (nothing, a nil carrier or a
\* value of another shape under the logger key) returns a handle without fields
\* that is bound to the discard backend.
C9_ExtractWithoutCarrier ==
    (cx.op = "Extract" /\ ~cx.touched) =>
        /\ cx.entry.logger = nullLogger
        /\ DOMAIN cx.entry.data = {}

\* Extract was applied to a context with a nil carrier under the logger key,
\* after a writer was attached to it
C9_Witness ==
    /\ cx.op = "Extract"
    /\ ~cx.touched
    /\ cx.ctx.logger.kind = "nil"
    /\ cx.ctx.writer = "negroni"

\* C10: Extract(ToContext(ctx, h)) has exactly the fields of h, with their
\* values, and the backend of h.
C10_ExtractAfterToContext ==
    (cx.op = "Extract" /\ cx.last = "ToContext") =>
        /\ cx.entry.logger = cx.arg.logger
        /\ DOMAIN cx.entry.data = DOMAIN cx.arg.data
        /\ \A k \in DOMAIN cx.arg.data : cx.entry.data[k] = cx.arg.data[k]

\* Extract was applied right after ToContext put a handle with two fields into
\* a context that already carried another handle
C10_Witness ==
    /\ cx.op = "Extract"
    /\ cx.last = "ToContext"
    /\ cx.parent.logger.kind = "carrier"
    /\ cx.parent.logger.l.logger # cx.arg
    /\ Cardinality(DOMAIN cx.arg.data) = 2
    /\ cx.entry = cx.arg

\* C11: ExtractWriter returns the writer most recently attached to the context
\* chain by AddWriterToContext (whatever ToContext or unrelated values came
\* after it), and the nil writer, without fault, when none was ever attached.
C11_ExtractWriterLatest ==
    cx.op = "ExtractWriter" =>
        /\ cx.writer = cx.argw
        /\ cx.writer \in Writers \cup {NoWriter}
        /\ (cx.argw = NoWriter) => (cx.writer = NoWriter)

\* ExtractWriter was applied to a context to which the opaque writer and then
\* the negroni writer were attached
C11_Witness ==
    /\ cx.op = "ExtractWriter"
    /\ cx.last = "AddWriterToContext"
    /\ cx.parent.writer = "opaque"
    /\ cx.argw = "negroni"
    /\ cx.writer = "negroni"

\* ExtractWriter was applied to a context that got a handle and an unrelated
\* value but never a writer
C11_NeverAttached ==
    /\ cx.op = "ExtractWriter"
    /\ cx.argw = NoWriter
    /\ cx.touched
    /\ cx.ctx.other = "v1"
    /\ cx.writer = NoWriter

\* C12: an ExcludeURL call with a string that does not parse returns an error
\* and leaves the excluded-path list as it was; a call with a string that parses
\* returns nil and appends exactly that string at the end; no other step changes
\* the list. ExcludedURLs() is therefore the successfully registered strings in
\* registration order.
C12_ExcludeURLContract ==
    [][/\ excludeResult'.err = "error" =>
            /\ ~ValidURL(excludeResult'.u)
            /\ ExcludedURLs' = ExcludedURLs
       /\ excludeResult'.err = "nil" =>
            /\ ValidURL(excludeResult'.u)
            /\ ExcludedURLs' = Append(ExcludedURLs, excludeResult'.u)
       /\ excludeResult'.err = "none" => ExcludedURLs' = ExcludedURLs
       /\ ~ValidURL(excludeResult'.u) => excludeResult'.err = "error"]_vars

\* a malformed string was refused after two strings were registered, and the
\* list holds those two in the order of their registration
C12_Witness ==
    /\ excludeResult = [err |-> "error", u |-> "%zz"]
    /\ ExcludedURLs = <<"/metrics", "/healthz">>

\* C13: with the default hooks, every record of a request that is not excluded
\* and carries a non-empty X-Request-Id has request_id equal to the header's
\* value; when the header is absent or empty no record has a request_id field.
C13_RequestIDOnEveryRecord ==
    \A p \in Procs :
        (Dispatched(p) /\ ~PathExcluded(p) /\ m.Before = "default" /\ m.After = "default") =>
            \A i \in DOMAIN log[p] :
                IF req[p].reqID # ""
                THEN HasField(log[p][i].data, "request_id", req[p].reqID)
                ELSE "request_id" \notin DOMAIN log[p][i].data

\* a request with X-Request-Id: abc123 has returned with its start record and
\* its completion record, both made by the default hooks
C13_Witness ==
    \E p \in Procs :
        /\ pc[p] = "done"
        /\ ~PathExcluded(p)
        /\ m.Before = "default"
        /\ m.After = "default"
        /\ req[p].reqID = "abc123"
        /\ Len(log[p]) = 2
        /\ log[p][1].data["request_id"] = "abc123"
        /\ log[p][2].data["request_id"] = "abc123"

\* a request without the header has returned with both records
C13_NoHeader ==
    \E p \in Procs :
        /\ pc[p] = "done"
        /\ ~PathExcluded(p)
        /\ m.Before = "default"
        /\ m.After = "default"
        /\ req[p].reqID = ""
        /\ Len(log[p]) = 2

CountOf(p, ev) == Cardinality({i \in DOMAIN events[p] : events[p][i] = ev})

\* C14: the start timestamp is the clock's reading taken before the Before hook
\* is called and is kept until next has returned; the completion record the
\* default After hook makes has took equal to the clock's reading right after
\* next returned minus that timestamp, and measure#<Name>.latency, for the name
\* the middleware is configured with, equal to the same number of nanoseconds;
\* the clock is read once for the start and once for the elapsed time.
C14_TookIsElapsed ==
    [][\A p \in Procs :
        /\ (pc[p] = "proceed" /\ pc'[p] = "dispatch") =>
                /\ local'[p].start = now
                /\ events'[p] = events[p] \o <<"Now", "Before">>
        /\ (pc[p] \in {"dispatch", "next"} /\ pc'[p] # "idle") =>
                local'[p].start = local[p].start
        /\ (pc[p] = "next" /\ pc'[p] = "done" /\ ~PathExcluded(p)
                /\ m.After = "default" /\ log'[p] # log[p]) =>
                LET d == log'[p][Len(log'[p])].data
                    key == IF m.Name = "web" THEN "measure#web.latency"
                           ELSE "measure#svc.latency"
                IN  /\ log'[p][Len(log'[p])].msg = CompletedMsg
                    /\ d["took"] = now - local[p].start
                    /\ d[key] = now - local[p].start
                    /\ {k \in DOMAIN d : k \notin {"status", "text_status", "took", key,
                                                  "request", "method", "remote",
                                                  "request_id", "before_hook"}} = {}
                    /\ CountOf(p, "Now")' = 1
                    /\ CountOf(p, "Since")' = 1
        /\ CountOf(p, "Now") <= 1
        /\ CountOf(p, "Since") <= 1]_vars

\* the middleware named svc has completed a request that started at clock
\* reading 1 and whose handler returned at reading 2
C14_Witness ==
    \E p \in Procs :
        /\ pc[p] = "done"
        /\ ~PathExcluded(p)
        /\ m.Name = "svc"
        /\ m.After = "default"
        /\ local[p].start = 1
        /\ now = 2
        /\ RecordsOf(p, CompletedMsg) # {}
        /\ Completed(p).data["took"] = 1
        /\ Completed(p).data["measure#svc.latency"] = 1

\* the position of ev among the events of p's request (0 if it has not occurred)
Pos(p, ev) ==
    IF Occurs(p, ev) THEN CHOOSE i \in DOMAIN events[p] : events[p][i] = ev ELSE 0

\* b has occurred only after a has
Precedes(p, a, b) == Occurs(p, b) => (Occurs(p, a) /\ Pos(p, a) < Pos(p, b))

\* C15: for a request that is not excluded, each step occurs at most once and in
\* this order: Before hook, start record (if enabled), installation of the handle,
\* call of next, return of next, elapsed-time measurement, writer recovery from
\* the context (if needed), After hook, completion record. While next has not
\* returned there is no After call and no completion record.
C15_StepOrder ==
    \A p \in Procs :
        ~PathExcluded(p) =>
            /\ \A ev \in {"Now", "Before", "started", "ToContext", "next", "return",
                          "Since", "ExtractWriter", "Extract", "After", "completed"} :
                    CountOf(p, ev) <= 1
            /\ Precedes(p, "Before", "started")
            /\ Precedes(p, "Before", "ToContext")
            /\ Occurs(p, "started") => Pos(p, "started") < Pos(p, "ToContext")
            /\ Precedes(p, "ToContext", "next")
            /\ Precedes(p, "next", "return")
            /\ Precedes(p, "return", "Since")
            /\ Precedes(p, "Since", "ExtractWriter")
            /\ Precedes(p, "Since", "After")
            /\ (Occurs(p, "ExtractWriter") /\ Occurs(p, "After")) =>
                    Pos(p, "ExtractWriter") < Pos(p, "After")
            /\ Precedes(p, "After", "completed")
            /\ (Occurs(p, "After") \/ Occurs(p, "completed") \/ afterArgs[p] # <<>>
                    \/ RecordsOf(p, CompletedMsg) # {}) => Occurs(p, "return")
            /\ Occurs(p, "started") = (RecordsOf(p, StartedMsg) # {})
            /\ Occurs(p, "completed") = (RecordsOf(p, CompletedMsg) # {})
            /\ Occurs(p, "After") = (afterArgs[p] # <<>>)
            /\ Occurs(p, "next") = (handler[p].calls = 1)
            /\ pc[p] = "next" =>
                    (~Occurs(p, "return") /\ afterArgs[p] = <<>>
                        /\ RecordsOf(p, CompletedMsg) = {})

\* a request went through every step: start record, dispatch, return, recovery of
\* the writer from the context, After and the completion record
C15_Witness ==
    \E p \in Procs :
        /\ pc[p] = "done"
        /\ ~PathExcluded(p)
        /\ events[p] = <<"Now", "Before", "started", "ToContext", "next", "return",
                         "Since", "ExtractWriter", "Extract", "After", "completed">>

\* C16: when the writer given to ServeHTTP is not status-capturing and the
\* context of the request as ServeHTTP received it carries a status-capturing
\* writer, that writer is recovered, After is called once, with it and with the
\* handle extracted from the derived context (the fields and backend of the
\* handle Before returned), and exactly one completion record is emitted; the
\* status After gets, and the default After records, is the recovered writer's.
C16_UpstreamDepositUsed ==
    \A p \in Procs :
        (pc[p] = "done" /\ ~PathExcluded(p) /\ req[p].rw = "opaque"
            /\ req[p].ctx.writer = "negroni") =>
            /\ local[p].res = "negroni"
            /\ local[p].ok
            /\ Len(afterArgs[p]) = 1
            /\ afterArgs[p][1].res = [w |-> "negroni", status |-> wstatus[p]]
            /\ afterArgs[p][1].entry.logger = local[p].entry.logger
            /\ afterArgs[p][1].entry.data = local[p].entry.data
            /\ local[p].newCtx.logger.kind = "carrier"
            /\ local[p].newCtx.logger.l.logger = local[p].entry
            /\ Cardinality(RecordsOf(p, CompletedMsg)) = 1
            /\ log[p][Len(log[p])].msg = CompletedMsg
            /\ m.After = "default" =>
                    /\ Completed(p).data["status"] = wstatus[p]
                    /\ Completed(p).data["status"] = handler[p].code

\* the writer was opaque, only the inbound context carried the negroni writer,
\* the handler wrote 404 and the default After recorded it
C16_Witness ==
    \E p \in Procs :
        /\ pc[p] = "done"
        /\ ~PathExcluded(p)
        /\ req[p].rw = "opaque"
        /\ req[p].ctx.writer = "negroni"
        /\ ~handler[p].deposited
        /\ handler[p].code = 404
        /\ m.After = "default"
        /\ Len(afterArgs[p]) = 1
        /\ RecordsOf(p, CompletedMsg) # {}
        /\ Completed(p).data["status"] = 404

\* C17: for c = ToContext(ctx, h), whatever Extract(c) calls were made and
\* whatever fields were attached to the handles they returned (through WithField
\* or by writing the handle's Data), the Carrier of c still holds h with no
\* fields of its own, every further Extract(c) returns exactly the fields and
\* the backend of h, and an attached field is on the handle the caller holds
\* only.
C17_ExtractLeavesCarrier ==
    (cx.last = "ToContext") =>
        /\ cx.ctx.logger.kind = "carrier"
        /\ cx.ctx.logger.l = [logger |-> cx.arg, fields |-> EmptyFields]
        /\ cx.op = "Extract" =>
                /\ cx.entry.logger = cx.arg.logger
                /\ cx.entry.data = cx.arg.data
                /\ "tag" \notin DOMAIN cx.entry.data
        /\ cx.tagged =>
                /\ "tag" \notin DOMAIN cx.ctx.logger.l.logger.data
                /\ cx.op = "Attach" => HasField(cx.held.data, "tag", "t1")

\* Extract(c) was called, a field was written on the returned handle, Extract(c)
\* was called again and returned the two fields of h, without the attached one
C17_Witness ==
    /\ cx.last = "ToContext"
    /\ cx.op = "Extract"
    /\ cx.tagged
    /\ Cardinality(DOMAIN cx.arg.data) = 2
    /\ cx.entry = cx.arg
    /\ "tag" \notin DOMAIN cx.held.data

\* C18: every ServeHTTP call resolves the hooks before anything else: a Before
\* (After) field found nil, also one set to nil between two requests, becomes the
\* default hook and a field that is set is left as it is; nothing faults; the
\* entry Before returned has request, method and remote when the hook is the
\* default one and the application's tag when it is the application's, and the
\* completion record has status, text_status, took and the latency measure when
\* After is the default one and the application's tag otherwise.
C18_HooksResolvedPerDispatch ==
    [][\A p \in Procs :
        /\ (pc[p] = "hooks" /\ pc'[p] # "hooks") =>
                /\ m'.Before = (IF m.Before = "nil" THEN "default" ELSE m.Before)
                /\ m'.After = (IF m.After = "nil" THEN "default" ELSE m.After)
        /\ pc'[p] # "panicked"
        /\ (pc'[p] \in {"dispatch", "next", "done"} /\ ~PathExcluded(p)') =>
                LET d == local'[p].entry.data
                IN  /\ m'.Before = "default" =>
                            /\ HasField(d, "request", req'[p].uri)
                            /\ HasField(d, "method", Method)
                            /\ HasField(d, "remote", local'[p].remoteAddr)
                            /\ "before_hook" \notin DOMAIN d
                    /\ m'.Before = "custom" =>
                            /\ HasField(d, "before_hook", "custom")
                            /\ "request" \notin DOMAIN d
        /\ (pc'[p] = "done" /\ RecordsOf(p, CompletedMsg)' # {}) =>
                LET d == Completed(p)'.data
                IN  /\ m'.After = "default" =>
                            /\ {"status", "text_status", "took", "measure#web.latency"}
                                    \subseteq DOMAIN d
                            /\ "after_hook" \notin DOMAIN d
                    /\ m'.After = "custom" =>
                            /\ HasField(d, "after_hook", "custom")
                            /\ "status" \notin DOMAIN d]_vars

\* a request found both hooks nil, the application having unset the fields
\* after construction, and has completed with the fields of the default hooks
C18_Witness ==
    \E p \in Procs :
        /\ pc[p] = "done"
        /\ ~PathExcluded(p)
        /\ {w.field : w \in fieldWrites[p]} = {"Before", "After"}
        /\ m.Before = "default"
        /\ m.After = "default"
        /\ HasField(local[p].entry.data, "request", req[p].uri)
        /\ RecordsOf(p, CompletedMsg) # {}
        /\ "status" \in DOMAIN Completed(p).data

\* C19: AddWriterToContext gives a context on which Extract and every other
\* key read as on the context it was given; ToContext gives one on which
\* ExtractWriter and every other key read as before; a value stored under an
\* unrelated key changes neither slot; and the context given to any of them
\* reads afterwards as it did before.
C19_SlotsIndependent ==
    [][(cx'.depth = cx.depth + 1) =>
        /\ cx'.parent = cx.ctx
        /\ Extract(cx'.parent) = Extract(cx.ctx)
        /\ ExtractWriter(cx'.parent) = ExtractWriter(cx.ctx)
        /\ cx'.last = "AddWriterToContext" =>
                /\ Extract(cx'.ctx) = Extract(cx.ctx)
                /\ cx'.ctx.logger = cx.ctx.logger
                /\ cx'.ctx.other = cx.ctx.other
                /\ ExtractWriter(cx'.ctx) = cx'.argw
        /\ cx'.last = "ToContext" =>
                /\ ExtractWriter(cx'.ctx) = ExtractWriter(cx.ctx)
                /\ cx'.ctx.other = cx.ctx.other
                /\ Extract(cx'.ctx) = cx'.arg
        /\ cx'.last = "WithValue" =>
                /\ Extract(cx'.ctx) = Extract(cx.ctx)
                /\ ExtractWriter(cx'.ctx) = ExtractWriter(cx.ctx)]_vars

\* a writer was attached to a context that carried a handle with two fields, and
\* Extract on the new context returned that handle
C19_Witness ==
    /\ cx.last = "AddWriterToContext"
    /\ cx.op = "Extract"
    /\ cx.parent.logger.kind = "carrier"
    /\ cx.parent.writer = NoWriter
    /\ cx.ctx.writer = "negroni"
    /\ Cardinality(DOMAIN cx.arg.data) = 2
    /\ cx.entry = cx.arg

\* a handle was put into a context that carried a writer, and ExtractWriter on
\* the new context returned that writer
C19_WriterKept ==
    /\ cx.last = "ToContext"
    /\ cx.op = "ExtractWriter"
    /\ cx.parent.logger.kind = "nil"
    /\ cx.parent.writer = "opaque"
    /\ cx.writer = "opaque"

\* C20: for every request, excluded or not, with the start record on or off and
\* the writer recovered or not, next is called exactly once, with the writer
\* ServeHTTP was given; ServeHTTP is ready for next to return and, once it has,
\* returns without a fault. For a request that is not excluded the context next
\* gets is one from which Extract yields the fields and the backend of the handle
\* the Before hook returned.
C20_NextOnceThenReturn ==
    \A p \in Procs :
        /\ handler[p].calls <= 1
        /\ CountOf(p, "next") = handler[p].calls
        /\ CountOf(p, "return") <= 1
        /\ pc[p] # "panicked"
        /\ Dispatched(p) =>
                /\ handler[p].calls = 1
                /\ handler[p].rw = req[p].rw
        /\ pc[p] = "next" =>
                /\ ~Occurs(p, "return")
                /\ ENABLED (Complete(p) \/ SkipReturn(p))
        /\ Occurs(p, "return") => pc[p] = "done"
        /\ pc[p] = "done" => (Occurs(p, "return") /\ ENABLED Finish(p))
        /\ (Dispatched(p) /\ ~PathExcluded(p)) =>
                /\ Extract(handler[p].ctx0).data = local[p].entry.data
                /\ Extract(handler[p].ctx0).logger = local[p].entry.logger
                /\ handler[p].ctx0.writer = req[p].ctx.writer
                /\ handler[p].ctx0.other = req[p].ctx.other
                /\ m.Before = "default" =>
                        HasField(Extract(handler[p].ctx0).data, "request", req[p].uri)
                /\ m.Before = "custom" =>
                        HasField(Extract(handler[p].ctx0).data, "before_hook", "custom")

\* ServeHTTP has returned for a request that caused no record at all (start
\* record off, no status-capturing writer to be found), after one call of next
\* with a context that yields the handle the application's Before hook returned
C20_Witness ==
    \E p \in Procs :
        /\ pc[p] = "done"
        /\ ~PathExcluded(p)
        /\ ~m.logStarting
        /\ m.Before = "custom"
        /\ req[p].rw = "opaque"
        /\ req[p].ctx.writer = NoWriter
        /\ req[p].reqID = "abc123"
        /\ log[p] = <<>>
        /\ handler[p].calls = 1
        /\ Extract(handler[p].ctx0).data =
                [k \in {"request_id", "before_hook"} |->
                    IF k = "request_id" THEN "abc123" ELSE "custom"]

\* ServeHTTP has returned for an excluded request after one call of next
C20_ExcludedOnce ==
    \E p \in Procs :
        /\ pc[p] = "done"
        /\ PathExcluded(p)
        /\ handler[p].calls = 1
        /\ events[p] = <<"next", "return">>

====
